---- MODULE Spec2Model ----
(***************************************************************************)
(* ClickNest: the ingest handler, the naming engine (queue, workers, name  *)
(* cache), the alert checker, the live event stream and the funnel query.  *)
(* One project is modelled (the runtime assumes a single active project),  *)
(* so the project_id equality of every query is left implicit.             *)
(***************************************************************************)
EXTENDS Integers, Sequences, FiniteSets, TLC

\* ------------------------------------------------------------------ bounds

\* Rows the event store may hold before the model stops ingesting.
MaxEvents == 3
\* Events in one ingest payload offered by the model.
MaxBatch == 2
\* Rows the event store may hold where the alert checker runs.
MaxAlertEvents == 2
\* Last instant of the model's clock.
MaxTime == 2
\* Rows the event store may hold where the event listing is asked.
MaxListEvents == 2
MaxBackfillEvents == 2
MaxRuns == 3
\* Changes made to the arguments of a call of ComputeFingerprint.
MaxEdits == 2
\* Length of the strings handed to the Encryptor.
MaxPlain == 2
\* Rows of the events table a funnel is queried on.
MaxFunnelEvents == 4
\* Steps of a funnel, and the client timestamps of the rows it is queried on.
MaxFunnelSteps == 3

\* ------------------------------------------------------- program constants

\* const maxBatchSize = 100
maxBatchSize == 100
\* make(chan NamingJob, 1000); scaled down so that a full queue is reached.
QueueCap == 2
\* NewNamer: workers <= 0 selects 2 workers.
NumWorkers == 2

\* createAlertHandler: window_minutes <= 0 becomes 60.
DefaultWindow == 60

\* A nil *time.Time (Alert.LastTriggeredAt of an alert that has never
\* fired) or the zero time.Time.
NoTime == -1
\* The position of the failing statement of an insert when none fails.
NoFailure == 0

\* FunnelResultsHandler: without a start parameter the range starts 30 days
\* (in minutes) before now.
FunnelDefaultSpan == 43200

\* liveEventsHandler: Limit: 50; scaled down so that a poll can meet more
\* matching rows than the limit.
LiveLimit == 2

\* SQL NULL / Go nil pointer.
NULL == "NULL"
\* The SDK transport retries at most MAX_RETRIES times.
MAX_RETRIES == 3
\* The nonce and tag sizes of the AEAD cipher.NewGCM returns.
NonceSize == 12
TagSize == 16

validEventTypes == {"click", "pageview", "input", "submit", "custom", "error"}

\* Strings url.ParseRequestURI accepts, among the URLs the model offers.
ParsableURLs == {"https://e.com/x"}

Fingerprints == {"f1", "f2"}
AINames == {"a1", "a2"}
UserNames == {"u1"}
Sessions == {"s1", "s2"}
Workers == 1..NumWorkers

AlertIds == {"A1"}
\* ORDER BY created_at DESC over the alerts the model can create.
AlertOrder == <<"A1">>
NoAlert == [exists |-> FALSE, metric |-> "", evname |-> "", threshold |-> 0,
            window |-> 0, enabled |-> FALSE, last |-> NoTime]
\* What became of the webhook of the alert being recorded.
WebhookOutcomes == {"sent", "failed", "unbuilt"}
IdleSched == [pc |-> "idle", snap |-> << >>, post |-> NoTime, out |-> "-"]

NoReq == [session |-> "-", events |-> << >>]
NoRow == [present |-> FALSE, ai |-> "", user |-> NULL]
IdleWorker == [pc |-> "idle", fp |-> "-", name |-> "-"]
\* No listing has been answered.
NoListing == [fp |-> "", out |-> << >>]
\* No Backfill goroutine is running.
IdleBackfill == [pc |-> "idle", todo |-> << >>]
\* The directory of migration files as sort.Slice orders its entries; the
\* last entry is not a .sql file.
MigrationEntries == <<"001.sql", "002.sql", "003.sql", "README.md">>
SqlFiles == {"001.sql", "002.sql", "003.sql"}
\* A fresh database: no run of RunMigrations yet.
NoMigrations == [pc |-> "idle", applied |-> {}, todo |-> << >>,
                 count |-> [f \in SqlFiles |-> 0], runs |-> 0, first |-> "none"]
\* ComputeFingerprint has not been called.
NoCall == [pc |-> "none", in |-> << >>, alt |-> << >>, out |-> << >>,
           outAlt |-> << >>, edits |-> 0]
\* The ids generateID may give a flag, and the distinct ids evaluations
\* are asked for: "a", "b" and the empty string of a request without one.
FlagIds == {"F1", "F2"}
DistinctIds == {<<97>>, <<98>>, << >>}
\* An empty feature_flags table and no evaluation.
NoFlag == [present |-> FALSE, enabled |-> FALSE, rollout |-> 0, given |-> 0, by |-> "-"]
NoAnswer == [asked |-> FALSE, distinct |-> << >>, result |-> [id \in {} |-> FALSE]]
NoFlags == [tab |-> [id \in FlagIds |-> NoFlag], ans |-> NoAnswer]
\* send has not been called.
NoSend == [pc |-> "idle", retryCount |-> 0, log |-> << >>, waits |-> << >>,
           result |-> "none"]
\* No name-override request has been answered.
NoOverride == [fp |-> "-", name |-> "", status |-> 0]
\* The Encryptor has not been used.
NoCrypt == [pc |-> "none", e |-> "nil", x |-> << >>,
            enc |-> [val |-> << >>, err |-> FALSE],
            dec |-> [val |-> << >>, err |-> FALSE]]
\* Close has not been called.
Running == [pc |-> "running", closed |-> FALSE, panicked |-> FALSE]
\* No funnel request has been made.
NoFunnel == [pc |-> "none", steps |-> << >>, qStart |-> "", qEnd |-> "",
             start |-> NoTime, end |-> NoTime, results |-> << >>]
\* No live stream has been opened. Rows are identified by their position in
\* the events table.
NoLive == [pc |-> "none", lastCheck |-> NoTime, batch |-> {},
           sent |-> {}, owed |-> {}, seen |-> 0, cancelled |-> FALSE]

VARIABLES
    now,        \* the server clock
    events,     \* DuckDB events table, in insertion order
    names,      \* SQLite event_names table: fingerprint -> row
    provider,   \* Namer.provider is non-nil
    jobs,       \* Namer.jobs, the buffered channel
    wk,         \* each worker goroutine's position and locals
    req,        \* the decoded payload of the latest ingest request
    rpc,        \* "decoded" while that request awaits validation, else "idle"
    pending,    \* fingerprints the ingest request has still to Submit
    resp,       \* status of the last ingest response
    alerts,     \* SQLite alerts table: id -> row
    sched,      \* the alert checker goroutine: position, listed alerts
    fired,      \* the two latest firings: time of the webhook request (or
                \* NoTime if none was sent) and the last_triggered_at stored
    live,       \* one liveEventsHandler: position, lastCheck, the rows its
                \* query returned, and, for the record, the rows sent in
                \* data frames (sent), the rows stored while the stream was
                \* open that a completed query has met (owed) and the size
                \* of the table at the latest query (seen)
    funnel,     \* a funnel results request: the stored funnel's steps, the
                \* start and end query parameters, and once it is answered
                \* the range queried and the results
    listing,    \* the latest answer of the event listing: its fingerprint
                \* filter and, for each row returned, the event_name sent
                \* and whether it was resolved from the name cache
    bf,         \* the Backfill goroutine: position and the fingerprints it
                \* has still to offer to the channel
    shut,       \* Namer.Close: its position, whether the job channel is
                \* closed, and whether a goroutine has panicked
    mig         \* RunMigrations on one database: the schema_migrations
                \* table, the files the current run has still to visit, how
                \* often each file was executed, the number of runs started
                \* and how the first run ended
    ,
    fpr         \* two calls of ComputeFingerprint: the five arguments of
                \* each, the strings returned, and the number of changes
                \* that lead from the first call's arguments to the second's
    ,
    crypt       \* one use of an Encryptor: the value handed to it, what
                \* Encrypt returned and what Decrypt returned
    ,
    ovr         \* the latest name-override request that was answered: its
                \* fingerprint, its name and the status of the response
    ,
    flags       \* the feature_flags table, with, for the record, the
                \* rollout percentage of the request that last wrote each
                \* row and the handler that took it, and the latest answer
                \* of the flag evaluation since the table last changed
    ,
    tx          \* one call of the SDK's send: its position, retryCount, how
                \* each attempt ended, the delays waited and the value the
                \* promise resolved to

ingestVars == <<events, req, rpc, pending, resp>>
namerVars == <<names, provider, jobs, wk>>
alertVars == <<alerts, sched, fired>>
liveVars == <<live>>
funnelVars == <<funnel>>
listVars == <<listing>>
bfVars == <<bf>>
migVars == <<mig>>
pureVars == <<fpr, crypt>>
coreVars == <<now, ingestVars, namerVars, alertVars, liveVars, funnelVars,
             listVars, bfVars, shut>>
ovrVars == <<ovr>>
flagVars == <<flags>>
txVars == <<tx>>
extVars == <<migVars, pureVars, ovrVars, flagVars, txVars>>
moreVars == <<shut, extVars>>
otherVars == <<alertVars, liveVars, funnelVars, listVars, bfVars, moreVars>>

vars == <<now, events, names, provider, jobs, wk, req, rpc, pending, resp, otherVars>>

\* ------------------------------------------------------------ ingestion

\* validateEvent: the checks that reject an event.
validateEvent(e) ==
    IF e.etype = "" THEN "event_type is required"
    ELSE IF e.etype \notin validEventTypes THEN "invalid event_type"
    ELSE IF e.url = "" THEN "url is required"
    ELSE IF e.url \notin ParsableURLs THEN "invalid url"
    ELSE "ok"

\* A plausible slip: only the first event of the batch is validated.
validateFirstOnly(evs, i) ==
    IF Len(evs) = 0 THEN "ok" ELSE validateEvent(evs[1])

\* ValidatePayload's loop over p.Events from position i: the first error.
RECURSIVE validateFrom(_, _)
validateFrom(evs, i) ==
    IF i > Len(evs) THEN "ok"
    ELSE IF validateEvent(evs[i]) # "ok" THEN validateEvent(evs[i])
    ELSE validateFrom(evs, i + 1)

ValidatePayload(p) ==
    IF Len(p.events) = 0 THEN "empty event batch"
    ELSE IF Len(p.events) > maxBatchSize THEN "batch exceeds maximum size of 100 events"
    ELSE IF p.session = "" THEN "session_id is required"
    ELSE validateFrom(p.events, 1)

\* The storage.Event built for payload event e: a zero timestamp is stamped
\* with the server clock; event_name is left nil.
BuildEvent(p, e) ==
    [session |-> p.session, etype |-> e.etype, fp |-> e.fp,
     ts |-> IF e.ts = 0 THEN now ELSE e.ts, name |-> NULL]

BuildEvents(p) == [i \in 1..Len(p.events) |-> BuildEvent(p, p.events[i])]

\* A plausible slip: pageviews are submitted like the other events.
SubmitAll(evs) == [i \in 1..Len(evs) |-> evs[i].fp]

\* Fingerprints of the non-pageview events of the payload, in batch order.
RECURSIVE SubmitList(_)
SubmitList(evs) ==
    IF evs = << >> THEN << >>
    ELSE IF Head(evs).etype = "pageview" THEN SubmitList(Tail(evs))
    ELSE <<Head(evs).fp>> \o SubmitList(Tail(evs))

\* ServeHTTP up to the decoded body: the request is now being served.
\* (One request is served at a time.)
IngestReceive(p) ==
    /\ rpc = "idle"
    /\ pending = << >>
    /\ req' = p
    /\ rpc' = "decoded"
    /\ UNCHANGED <<now, events, names, provider, jobs, wk, pending, resp, otherVars>>

\* A plausible slip: the rows inserted before the failure stay.
KeepRows(rows) == rows

\* tx.Rollback, deferred by InsertEvents: the rows the transaction has
\* inserted are gone.
Rollback(rows) == << >>

\* DuckDB.InsertEvents: <<the table after the call, success>>. The
\* statement of the event at position failAt fails (the commit, when failAt
\* is one past the batch), or none does (failAt is NoFailure).
InsertEvents(evs, failAt) ==
    IF failAt = NoFailure THEN <<events \o evs, TRUE>>
    ELSE <<events \o Rollback(SubSeq(evs, 1, failAt - 1)), FALSE>>

\* ServeHTTP from ValidatePayload to InsertEvents: a stored batch is handed
\* on to the Submit loop, a failed insert is answered with 500.
IngestHandle(failAt) ==
    /\ rpc = "decoded"
    /\ failAt <= Len(req.events) + 1
    /\ rpc' = "idle"
    /\ IF ValidatePayload(req) # "ok"
       THEN /\ resp' = 400
            /\ UNCHANGED <<events, pending>>
       ELSE LET stored == InsertEvents(BuildEvents(req), failAt)
            IN /\ events' = stored[1]
               /\ pending' = IF stored[2] THEN SubmitList(req.events) ELSE << >>
               /\ resp' = IF stored[2] THEN 202 ELSE 500
    /\ UNCHANGED <<now, names, provider, jobs, wk, req, otherVars>>

\* ---------------------------------------------------------- name cache

\* Cache.Get on the row GetEventName returns: <<display name, found>>.
CacheLookup(row) ==
    IF ~row.present THEN <<"", FALSE>>
    ELSE IF row.user # NULL /\ row.user # "" THEN <<row.user, TRUE>>
    ELSE <<row.ai, TRUE>>

CacheGet(fp) == CacheLookup(names[fp])

\* A plausible slip: INSERT OR REPLACE, which rewrites the whole row.
SetEventNameReplace(fp, ai) ==
    [names EXCEPT ![fp] = [present |-> TRUE, ai |-> ai, user |-> NULL]]

\* SQLite.SetEventName: the upsert writes ai_name and leaves user_name.
SetEventName(fp, ai) ==
    IF names[fp].present
    THEN [names EXCEPT ![fp].ai = ai]
    ELSE [names EXCEPT ![fp] = [present |-> TRUE, ai |-> ai, user |-> NULL]]

\* SQLite.OverrideEventName: an UPDATE, which changes existing rows only.
OverrideEventName(fp, userName) ==
    IF names[fp].present THEN [names EXCEPT ![fp].user = userName] ELSE names

\* DuckDB.BackfillEventName: only rows whose event_name IS NULL.
BackfillEventName(fp, name) ==
    [i \in DOMAIN events |->
        IF events[i].fp = fp /\ events[i].name = NULL
        THEN [events[i] EXCEPT !.name = name]
        ELSE events[i]]

\* -------------------------------------------------------- event listing

\* DuckDB.QueryEvents as EventsHandler calls it with a fingerprint filter
\* ("" when absent): the rows selected. The default limit of 100 rows is
\* above the size of any table of the model.
ListRows(fp) == {i \in DOMAIN events : fp # "" => events[i].fp = fp}

\* SQLite.BatchGetEventNames: the cache rows of the fingerprints asked.
BatchGetEventNames(fps) == [f \in {x \in fps : names[x].present} |-> names[f]]

\* A plausible slip: the AI name is taken whatever the user_name.
ResolveAIName(en) == en.ai

\* EventsHandler's choice between the two names of a cache row.
ResolveName(en) == IF en.user # NULL /\ en.user # "" THEN en.user ELSE en.ai

\* EventsHandler: query, then fill each missing event_name from the cache.
EventsList(fp) ==
    /\ LET rows == ListRows(fp)
           nameCache == BatchGetEventNames({events[i].fp : i \in rows})
       IN listing' = [fp |-> fp, out |-> [i \in rows |->
               IF events[i].name # NULL
               THEN [name |-> events[i].name, cached |-> FALSE]
               ELSE IF events[i].fp \in DOMAIN nameCache
               THEN [name |-> ResolveName(nameCache[events[i].fp]), cached |-> TRUE]
               ELSE [name |-> NULL, cached |-> FALSE]]]
    /\ UNCHANGED <<now, ingestVars, namerVars, alertVars, liveVars, funnelVars, bfVars, moreVars>>

\* --------------------------------------------------------- naming engine

\* A plausible slip: Submit without the cache lookup.
SubmitNoCacheCheck(fp) ==
    IF ~provider THEN jobs
    ELSE IF Len(jobs) < QueueCap THEN Append(jobs, fp)
    ELSE jobs

\* A plausible slip: the job is sent only into an empty channel.
SubmitIfEmpty(fp) ==
    IF ~provider THEN jobs
    ELSE IF CacheGet(fp)[2] THEN jobs
    ELSE IF jobs = << >> THEN Append(jobs, fp)
    ELSE jobs

\* Namer.Submit: the channel after the call.
Submit(fp) ==
    IF ~provider THEN jobs
    ELSE IF CacheGet(fp)[2] THEN jobs
    ELSE IF Len(jobs) < QueueCap THEN Append(jobs, fp)
    ELSE jobs

\* Namer.Submit reaches its select: a provider is set and the cache has no
\* row for the fingerprint.
SubmitSends(fp) == provider /\ ~CacheGet(fp)[2]

\* A send on a closed channel panics, inside a select with a default branch
\* too, whether or not the buffer has room.
Panic == [shut EXCEPT !.panicked = TRUE]

\* ServeHTTP's loop over the stored batch: one Submit call.
IngestSubmit ==
    /\ pending # << >>
    /\ IF SubmitSends(Head(pending)) /\ shut.closed
       THEN /\ shut' = Panic
            /\ UNCHANGED <<jobs, pending>>
       ELSE /\ jobs' = Submit(Head(pending))
            /\ pending' = Tail(pending)
            /\ shut' = shut
    /\ UNCHANGED <<now, events, names, provider, wk, req, rpc, resp, alertVars,
                   liveVars, funnelVars, listVars, bfVars, extVars>>

\* Namer.SetProvider: the provider is swapped (to nil when p is FALSE).
SetProvider(p) ==
    /\ provider' = p
    /\ UNCHANGED <<now, events, names, jobs, wk, req, rpc, pending, resp, otherVars>>

\* llmConfigHandler: Namer.SetProvider with the provider built from the
\* stored config (nil when the config names none), and for a non-nil
\* provider a Backfill goroutine. One Backfill goroutine exists at a time:
\* a provider is not set again while one is running.
LlmConfig(p) ==
    /\ p => bf.pc = "idle"
    /\ provider' = p
    /\ bf' = IF p THEN [pc |-> "spawned", todo |-> << >>] ELSE bf
    /\ UNCHANGED <<now, events, names, jobs, wk, req, rpc, pending, resp,
                   alertVars, liveVars, funnelVars, listVars, moreVars>>

\* DuckDB.UnnamedFingerprints: the fingerprints of the non-pageview rows
\* without an event_name.
UnnamedFingerprints ==
    {events[i].fp : i \in {j \in DOMAIN events :
        events[j].etype # "pageview" /\ events[j].name \in {NULL, ""}}}

\* The orders in which a query without ORDER BY may return the set S.
Orders(S) ==
    {q \in [1..Cardinality(S) -> S] : \A i, j \in DOMAIN q : q[i] = q[j] => i = j}

\* Namer.Backfill up to its loop: without a provider it returns, else it
\* reads the unnamed fingerprints; when the query fails (queryOk is false)
\* it returns.
BackfillStart(queryOk) ==
    /\ bf.pc = "spawned"
    /\ IF ~provider \/ ~queryOk \/ UnnamedFingerprints = {}
       THEN bf' = IdleBackfill
       ELSE \E q \in Orders(UnnamedFingerprints) : bf' = [pc |-> "loop", todo |-> q]
    /\ UNCHANGED <<now, ingestVars, namerVars, alertVars, liveVars, funnelVars, listVars, moreVars>>

\* Namer.Backfill after an iteration that did not find the channel full.
BackfillAfter(todo) ==
    IF Tail(todo) = << >> THEN IdleBackfill ELSE [pc |-> "loop", todo |-> Tail(todo)]

\* A plausible slip: a full channel skips the fingerprint and the pass
\* goes on.
BackfillOnFullGoOn(todo) ==
    IF Tail(todo) = << >> THEN IdleBackfill ELSE [pc |-> "loop", todo |-> Tail(todo)]

\* Namer.Backfill when the send finds the channel full: the pass returns.
BackfillOnFull(todo) == IdleBackfill

\* Namer.Backfill, one iteration: a cached fingerprint is passed over, else
\* the job is sent if the channel has room.
BackfillStep ==
    /\ bf.pc = "loop"
    /\ LET f == Head(bf.todo)
       IN IF CacheGet(f)[2]
          THEN jobs' = jobs /\ bf' = BackfillAfter(bf.todo) /\ shut' = shut
          ELSE IF shut.closed
          THEN jobs' = jobs /\ bf' = bf /\ shut' = Panic
          ELSE IF Len(jobs) < QueueCap
          THEN jobs' = Append(jobs, f) /\ bf' = BackfillAfter(bf.todo) /\ shut' = shut
          ELSE jobs' = jobs /\ bf' = BackfillOnFull(bf.todo) /\ shut' = shut
    /\ UNCHANGED <<now, ingestVars, names, provider, wk, alertVars, liveVars,
                   funnelVars, listVars, extVars>>

\* overrideNameHandler: the name must be non-empty.
OverrideName(fp, userName) ==
    /\ userName # ""
    /\ names' = OverrideEventName(fp, userName)
    /\ UNCHANGED <<now, events, provider, jobs, wk, req, rpc, pending, resp, otherVars>>

\* overrideNameHandler with its response: 400 for an empty name, 500 when
\* the UPDATE fails, else 200 with status ok.
OverrideRequest(fp, userName, execOk) ==
    /\ names' = IF userName # "" /\ execOk THEN OverrideEventName(fp, userName)
                ELSE names
    /\ ovr' = [fp |-> fp, name |-> userName,
               status |-> IF userName = "" THEN 400 ELSE IF execOk THEN 200 ELSE 500]
    /\ UNCHANGED <<now, events, provider, jobs, wk, req, rpc, pending, resp,
                   alertVars, liveVars, funnelVars, listVars, bfVars, shut,
                   migVars, pureVars, flagVars, txVars>>

\* worker: receive a job, recheck the cache, snapshot the provider; a job
\* that passes goes on to the source matcher.
WorkerTake(w) ==
    /\ wk[w].pc = "idle"
    /\ jobs # << >>
    /\ jobs' = Tail(jobs)
    /\ IF CacheGet(Head(jobs))[2] \/ ~provider
       THEN wk' = wk
       ELSE wk' = [wk EXCEPT ![w] = [pc |-> "enrich", fp |-> Head(jobs), name |-> "-"]]
    /\ UNCHANGED <<now, events, names, provider, req, rpc, pending, resp, otherVars>>

\* worker: the request is enriched; GenerateEventName is called on the
\* provider snapshotted before.
WorkerCall(w) ==
    /\ wk[w].pc = "enrich"
    /\ wk' = [wk EXCEPT ![w].pc = "calling"]
    /\ UNCHANGED <<now, events, names, provider, jobs, req, rpc, pending, resp, otherVars>>

\* A plausible slip: the failed job is put back on the queue.
WorkerFailRequeue(w) ==
    /\ wk[w].pc = "calling"
    /\ wk' = [wk EXCEPT ![w] = IdleWorker]
    /\ jobs' = IF Len(jobs) < QueueCap THEN Append(jobs, wk[w].fp) ELSE jobs
    /\ UNCHANGED <<now, events, names, provider, req, rpc, pending, resp, otherVars>>

\* worker: GenerateEventName returns an error; the job is dropped.
WorkerFail(w) ==
    /\ wk[w].pc = "calling"
    /\ wk' = [wk EXCEPT ![w] = IdleWorker]
    /\ UNCHANGED <<now, events, names, provider, jobs, req, rpc, pending, resp, otherVars>>

\* worker: GenerateEventName returns a name, which cache.Set stores.
WorkerNamed(w, name) ==
    /\ wk[w].pc = "calling"
    /\ names' = SetEventName(wk[w].fp, name)
    /\ wk' = [wk EXCEPT ![w].pc = "backfill", ![w].name = name]
    /\ UNCHANGED <<now, events, provider, jobs, req, rpc, pending, resp, otherVars>>

\* worker: BackfillEventName with the name just generated.
WorkerBackfill(w) ==
    /\ wk[w].pc = "backfill"
    /\ events' = BackfillEventName(wk[w].fp, wk[w].name)
    /\ wk' = [wk EXCEPT ![w] = IdleWorker]
    /\ UNCHANGED <<now, names, provider, jobs, req, rpc, pending, resp, otherVars>>

\* worker: the range over the channel ends once the channel is closed and
\* empty; the worker returns (wg.Done).
WorkerExit(w) ==
    /\ wk[w].pc = "idle"
    /\ shut.closed
    /\ jobs = << >>
    /\ wk' = [wk EXCEPT ![w].pc = "done"]
    /\ UNCHANGED <<now, events, names, provider, jobs, req, rpc, pending, resp, otherVars>>

\* Namer.Close up to wg.Wait: the job channel is closed.
Close ==
    /\ shut.pc = "running"
    /\ shut' = [shut EXCEPT !.pc = "waiting", !.closed = TRUE]
    /\ UNCHANGED <<now, ingestVars, namerVars, alertVars, liveVars, funnelVars,
                   listVars, bfVars, extVars>>

\* Namer.Close: wg.Wait returns once every worker has returned.
CloseReturn ==
    /\ shut.pc = "waiting"
    /\ \A w \in Workers : wk[w].pc = "done"
    /\ shut' = [shut EXCEPT !.pc = "returned"]
    /\ UNCHANGED <<now, ingestVars, namerVars, alertVars, liveVars, funnelVars,
                   listVars, bfVars, extVars>>

\* ---------------------------------------------------------------- alerts

\* The last two entries of a log.
LastTwo(log) == IF Len(log) <= 2 THEN log ELSE SubSeq(log, Len(log) - 1, Len(log))

\* createAlertHandler: a window of zero or less becomes 60 minutes; the
\* alert starts enabled and has never fired.
CreateAlert(id, metric, evname, threshold, window) ==
    /\ ~alerts[id].exists
    /\ metric # ""
    /\ alerts' = [alerts EXCEPT ![id] =
                    [exists |-> TRUE, metric |-> metric, evname |-> evname,
                     threshold |-> threshold,
                     window |-> IF window <= 0 THEN DefaultWindow ELSE window,
                     enabled |-> TRUE, last |-> NoTime]]
    /\ UNCHANGED <<now, ingestVars, namerVars, sched, fired, liveVars, funnelVars, listVars, bfVars, moreVars>>

\* updateAlertHandler / SQLite.UpdateAlert: enabled and threshold of the row.
UpdateAlert(id, enabled, threshold) ==
    /\ alerts' = IF alerts[id].exists
                 THEN [alerts EXCEPT ![id].enabled = enabled, ![id].threshold = threshold]
                 ELSE alerts
    /\ UNCHANGED <<now, ingestVars, namerVars, sched, fired, liveVars, funnelVars, listVars, bfVars, moreVars>>

\* SQLite.ListAllEnabledAlerts: copies of the enabled rows.
ListAllEnabledAlerts ==
    LET rows == [i \in DOMAIN AlertOrder |->
                    [id |-> AlertOrder[i]] @@ alerts[AlertOrder[i]]]
    IN SelectSeq(rows, LAMBDA r : r.exists /\ r.enabled)

\* checkAlerts' switch on a.Metric: <<eventType, eventName>>.
MetricFilter(a) ==
    IF a.metric = "error_count" THEN <<"error", "">>
    ELSE IF a.metric = "pageview_count" THEN <<"pageview", "">>
    ELSE IF a.metric = "event_count" THEN <<"", a.evname>>
    ELSE <<"", "">>

\* DuckDB.CountEvents: an empty eventType or eventName adds no condition.
CountEvents(eventType, eventName, since) ==
    Cardinality({i \in DOMAIN events :
        /\ (eventType # "" => events[i].etype = eventType)
        /\ (eventName # "" => events[i].name = eventName)
        /\ events[i].ts >= since})

\* A plausible slip: the cooldown test is left out.
InCooldownNever(a, t) == FALSE

\* A plausible slip: <= instead of <, a cooldown one minute too long.
InCooldownInclusive(a, t) == a.last # NoTime /\ t - a.last <= a.window

\* checkAlerts' cooldown test on the listed row at time t.
InCooldown(a, t) == a.last # NoTime /\ t - a.last < a.window

\* A plausible slip: >= instead of >, firing at count = threshold.
OverThresholdInclusive(count, a) == count >= a.threshold

\* checkAlerts' threshold test: count <= threshold skips the alert.
OverThreshold(count, a) == ~(count <= a.threshold)

\* SQLite.UpdateAlertTriggered.
UpdateAlertTriggered(id, t) ==
    IF alerts[id].exists THEN [alerts EXCEPT ![id].last = t] ELSE alerts

\* The checker goes on to the next listed alert, or returns.
SchedAdvance ==
    IF Tail(sched.snap) = << >> THEN IdleSched
    ELSE [pc |-> "loop", snap |-> Tail(sched.snap), post |-> NoTime, out |-> "-"]

\* A tick of the 5-minute ticker: checkAlerts lists the enabled alerts.
AlertTick ==
    /\ sched.pc = "idle"
    /\ sched' = IF ListAllEnabledAlerts = << >> THEN IdleSched
                ELSE [pc |-> "loop", snap |-> ListAllEnabledAlerts, post |-> NoTime, out |-> "-"]
    /\ UNCHANGED <<now, ingestVars, namerVars, alerts, fired, liveVars, funnelVars, listVars, bfVars, moreVars>>

\* checkAlerts' loop body for the next listed alert, up to the webhook
\* request: count, threshold test, cooldown test, POST. The request is
\* sent unless it cannot be built, and its delivery succeeds or fails.
AlertEval ==
    /\ sched.pc = "loop"
    /\ LET a == Head(sched.snap)
           count == CountEvents(MetricFilter(a)[1], MetricFilter(a)[2], now - a.window)
       IN IF ~OverThreshold(count, a) \/ InCooldown(a, now)
          THEN sched' = SchedAdvance
          ELSE \E outcome \in WebhookOutcomes :
                 sched' = [sched EXCEPT !.pc = "record", !.out = outcome,
                                        !.post = IF outcome # "unbuilt" THEN now
                                                 ELSE NoTime]
    /\ UNCHANGED <<now, ingestVars, namerVars, alerts, fired, liveVars, funnelVars, listVars, bfVars, moreVars>>

\* A plausible slip: last_triggered_at is written only after a delivery.
AlertRecordIfSent ==
    /\ sched.pc = "record"
    /\ alerts' = IF sched.out = "sent"
                 THEN UpdateAlertTriggered(Head(sched.snap).id, now) ELSE alerts
    /\ fired' = LastTwo(Append(fired,
                    [id |-> Head(sched.snap).id, post |-> sched.post, at |-> now]))
    /\ sched' = SchedAdvance
    /\ UNCHANGED <<now, ingestVars, namerVars, liveVars, funnelVars, listVars, bfVars, moreVars>>

\* checkAlerts' loop body after the webhook: last_triggered_at := now.
AlertRecord ==
    /\ sched.pc = "record"
    /\ alerts' = UpdateAlertTriggered(Head(sched.snap).id, now)
    /\ fired' = LastTwo(Append(fired,
                    [id |-> Head(sched.snap).id, post |-> sched.post, at |-> now]))
    /\ sched' = SchedAdvance
    /\ UNCHANGED <<now, ingestVars, namerVars, liveVars, funnelVars, listVars, bfVars, moreVars>>

\* ----------------------------------------------------------- live stream

\* The rows a query with StartTime = start selects.
Matching(start) == {i \in DOMAIN events : events[i].ts >= start}

\* A plausible slip: timestamp > ? instead of timestamp >= ?.
QueryEventsAfter(start, limit) ==
    LET M == {i \in DOMAIN events : events[i].ts > start}
    IN IF Cardinality(M) <= limit THEN {M}
       ELSE {S \in SUBSET M :
               /\ Cardinality(S) = limit
               /\ \A i \in S, j \in M \ S : events[i].ts >= events[j].ts}

\* DuckDB.QueryEvents with only StartTime and Limit set: the results
\* "timestamp >= ? ORDER BY timestamp DESC LIMIT ?" may return, each as the
\* set of its rows. Rows of equal timestamp come in either order.
QueryEvents(start, limit) ==
    LET M == Matching(start)
    IN IF Cardinality(M) <= limit THEN {M}
       ELSE {S \in SUBSET M :
               /\ Cardinality(S) = limit
               /\ \A i \in S, j \in M \ S : events[i].ts >= events[j].ts}

\* liveEventsHandler up to its loop: lastCheck := time.Now().
LiveOpen ==
    /\ live.pc = "none"
    /\ live' = [NoLive EXCEPT !.pc = "wait", !.lastCheck = now, !.seen = Len(events)]
    /\ UNCHANGED <<now, ingestVars, namerVars, alertVars, funnelVars, listVars, bfVars, moreVars>>

\* case <-ticker.C: the query. The ticker fires two seconds after the
\* stream opened or after the previous tick, so the clock has moved on since
\* lastCheck was read. A failed query (queryOk is false) is skipped; a query
\* under a cancelled request context fails.
LiveQuery(queryOk) ==
    /\ live.pc = "wait"
    /\ now > live.lastCheck
    /\ queryOk => ~live.cancelled
    /\ IF queryOk
       THEN \E S \in QueryEvents(live.lastCheck, LiveLimit) :
              live' = [live EXCEPT !.pc = "queried", !.batch = S,
                                   !.owed = @ \cup ((live.seen + 1)..Len(events)),
                                   !.seen = Len(events)]
       ELSE live' = live
    /\ UNCHANGED <<now, ingestVars, namerVars, alertVars, funnelVars, listVars, bfVars, moreVars>>

\* case <-ticker.C after the query: lastCheck := time.Now(), and a non-empty
\* result is written as one data frame. A failed write ends the handler.
LiveEmit(writeOk) ==
    /\ live.pc = "queried"
    /\ live' = IF live.batch = {}
               THEN [live EXCEPT !.pc = "wait", !.lastCheck = now]
               ELSE IF writeOk
               THEN [live EXCEPT !.pc = "wait", !.lastCheck = now, !.batch = {},
                                 !.sent = @ \cup live.batch]
               ELSE [live EXCEPT !.pc = "closed", !.lastCheck = now, !.batch = {}]
    /\ UNCHANGED <<now, ingestVars, namerVars, alertVars, funnelVars, listVars, bfVars, moreVars>>

\* case <-r.Context().Done() with the client going while the handler waits
\* in its select.
LiveDisconnect ==
    /\ live.pc = "wait"
    /\ live' = [live EXCEPT !.pc = "closed", !.cancelled = TRUE]
    /\ UNCHANGED <<now, ingestVars, namerVars, alertVars, funnelVars, listVars, bfVars, moreVars>>

\* The client goes, at any moment of an open stream: the request context
\* is cancelled.
LiveCancel ==
    /\ live.pc \in {"wait", "queried"}
    /\ ~live.cancelled
    /\ live' = [live EXCEPT !.cancelled = TRUE]
    /\ UNCHANGED <<now, ingestVars, namerVars, alertVars, funnelVars, listVars, bfVars, moreVars>>

\* A plausible slip: the loop has no case for the cancelled context.
LiveDoneNever ==
    /\ FALSE
    /\ UNCHANGED vars

\* case <-r.Context().Done(): the handler returns.
LiveDone ==
    /\ live.pc = "wait"
    /\ live.cancelled
    /\ live' = [live EXCEPT !.pc = "closed"]
    /\ UNCHANGED <<now, ingestVars, namerVars, alertVars, funnelVars, listVars, bfVars, moreVars>>

\* case <-heartbeat.C: a comment frame is written; a failed write ends the
\* handler.
LiveHeartbeat(writeOk) ==
    /\ live.pc = "wait"
    /\ live' = IF writeOk THEN live ELSE [live EXCEPT !.pc = "closed"]
    /\ UNCHANGED <<now, ingestVars, namerVars, alertVars, funnelVars, listVars, bfVars, moreVars>>

\* ---------------------------------------------------------------- funnel

\* The WHERE clause of a step CTE on row e, the join condition apart.
StepMatch(e, step, start, end) ==
    /\ e.etype = step.etype
    /\ (step.name # "" => e.name = step.name)
    /\ (start # NoTime => e.ts >= start)
    /\ (end # NoTime => e.ts <= end)

\* A plausible slip: e.timestamp >= s.ts.
NotBefore(ts, prev) == ts >= prev

\* The join condition of the step CTEs after the first: e.timestamp > s.ts.
After(ts, prev) == ts > prev

\* MIN(timestamp) of a non-empty group.
MinTs(S) == CHOOSE x \in S : \A y \in S : x <= y

\* The rows of CTE step<k>, as <<session_id, ts>> pairs: for each session of
\* step<k-1>, the earliest matching event after that step's ts.
RECURSIVE StepCTE(_, _, _, _)
StepCTE(steps, k, start, end) ==
    LET group(s) == {events[i].ts : i \in {j \in DOMAIN events :
                        /\ events[j].session = s
                        /\ StepMatch(events[j], steps[k], start, end)}}
        later(r) == {t \in group(r[1]) : After(t, r[2])}
    IN IF k = 1
       THEN {<<s, MinTs(group(s))>> : s \in {x \in Sessions : group(x) # {}}}
       ELSE {<<r[1], MinTs(later(r))>> :
                r \in {q \in StepCTE(steps, k - 1, start, end) : later(q) # {}}}

\* DuckDB.QueryFunnel: COUNT(*) of each step CTE; no steps, no result. The
\* sessions of each CTE are kept beside the counts.
QueryFunnel(steps, start, end) ==
    [k \in 1..Len(steps) |->
        [count |-> Cardinality(StepCTE(steps, k, start, end)),
         sessions |-> {r[1] : r \in StepCTE(steps, k, start, end)}]]

\* time.Parse(time.RFC3339, v): the zero time when v does not parse.
ParseTime(v) == IF v = "t2" THEN 2 ELSE NoTime

\* FunnelResultsHandler: the range defaults to the last 30 days, a
\* parameter that is present replaces its end of the range.
FunnelResults ==
    /\ funnel.pc = "request"
    /\ LET start == IF funnel.qStart = "" THEN now - FunnelDefaultSpan
                    ELSE ParseTime(funnel.qStart)
           end == IF funnel.qEnd = "" THEN now ELSE ParseTime(funnel.qEnd)
       IN funnel' = [funnel EXCEPT !.pc = "answered", !.start = start, !.end = end,
                                   !.results = QueryFunnel(funnel.steps, start, end)]
    /\ UNCHANGED <<now, ingestVars, namerVars, alertVars, liveVars, listVars, bfVars, moreVars>>

\* Time passes.
ClockAdvance ==
    /\ now < MaxTime
    /\ now' = now + 1
    /\ UNCHANGED <<ingestVars, namerVars, otherVars>>

\* ------------------------------------------------------------ migrations

\* How a run of RunMigrations that ends now is remembered: only the first
\* run's outcome is kept.
MigEnd(outcome) == IF mig.first = "none" THEN outcome ELSE mig.first

\* RunMigrations up to its loop: the tracking table is created if missing,
\* the applied filenames are read and the directory is listed in filename
\* order. When one of these fails (ok is false) the run returns the error.
MigStart(ok) ==
    /\ mig.pc = "idle"
    /\ mig.runs < MaxRuns
    /\ mig' = IF ok
              THEN [mig EXCEPT !.pc = "loop", !.todo = MigrationEntries, !.runs = @ + 1]
              ELSE [mig EXCEPT !.runs = @ + 1, !.first = MigEnd("failed")]
    /\ UNCHANGED <<now, ingestVars, namerVars, alertVars, liveVars, funnelVars,
                   listVars, bfVars, shut, pureVars, ovrVars, flagVars, txVars>>

\* A plausible slip: the applied set is not consulted.
SkipNonSql(entry, applied) == entry \notin SqlFiles

\* RunMigrations' loop: an entry that is no .sql file or is recorded in the
\* applied set read at the start of the run is passed over.
Skip(entry, applied) == entry \notin SqlFiles \/ entry \in applied

\* RunMigrations' loop body for the next entry: the file is executed, then
\* recorded in schema_migrations; the run returns the error of a failed
\* execution (execOk is false) or of a failed recording (recordOk is false).
MigStep(execOk, recordOk) ==
    /\ mig.pc = "loop"
    /\ mig.todo # << >>
    /\ LET entry == Head(mig.todo)
       IN mig' = IF Skip(entry, mig.applied)
                 THEN [mig EXCEPT !.todo = Tail(@)]
                 ELSE IF ~execOk \/ ~recordOk
                 THEN [mig EXCEPT !.pc = "idle", !.todo = << >>,
                                  !.count[entry] = @ + 1, !.first = MigEnd("failed")]
                 ELSE [mig EXCEPT !.todo = Tail(@), !.count[entry] = @ + 1,
                                  !.applied = @ \cup {entry}]
    /\ UNCHANGED <<now, ingestVars, namerVars, alertVars, liveVars, funnelVars,
                   listVars, bfVars, shut, pureVars, ovrVars, flagVars, txVars>>

\* RunMigrations returns nil after the last entry.
MigReturn ==
    /\ mig.pc = "loop"
    /\ mig.todo = << >>
    /\ mig' = [mig EXCEPT !.pc = "idle", !.first = MigEnd("ok")]
    /\ UNCHANGED <<now, ingestVars, namerVars, alertVars, liveVars, funnelVars,
                   listVars, bfVars, shut, pureVars, ovrVars, flagVars, txVars>>

\* ------------------------------------------------------------- payloads

PayloadEvent(etype, url, fp, ts) == [etype |-> etype, url |-> url, fp |-> fp, ts |-> ts]

\* Events a client may send: valid ones and ones each check rejects.
ValidationEvents ==
    {PayloadEvent(t, "https://e.com/x", "f1", 0) : t \in {"click", "pageview", "hover", ""}}
    \cup {PayloadEvent("click", u, "f1", 0) : u \in {"", "not a url"}}
    \cup {PayloadEvent("click", "https://e.com/x", "f2", 0)}

SeqsUpTo(S, n) == UNION {[1..k -> S] : k \in 0..n}

ValidationPayloads ==
    {[session |-> s, events |-> evs] : s \in {"s1", ""}, evs \in SeqsUpTo(ValidationEvents, MaxBatch)}

NamingEvents ==
    {PayloadEvent(t, "https://e.com/x", f, 0) : t \in {"click", "pageview"}, f \in Fingerprints}

NamingPayloads ==
    {[session |-> "s1", events |-> evs] : evs \in SeqsUpTo(NamingEvents, 1) \ {<< >>}}

ListPayloads ==
    {[session |-> "s1", events |-> <<PayloadEvent("click", "https://e.com/x", f, 0)>>] :
        f \in Fingerprints}

\* Clicks stamped by the client.
RetryPayloads ==
    {[session |-> "s1", events |-> <<PayloadEvent("click", "https://e.com/x", f, 1)>>] :
        f \in Fingerprints}

\* A client whose clock runs ahead of every instant of the server clock.
FutureTs == MaxTime + 1

\* One event per request, stamped by the server or by the fast client.
AlertPayloads ==
    {[session |-> "s1", events |-> <<PayloadEvent(c[1], "https://e.com/x", "f1", c[2])>>] :
        c \in {<<"error", 0>>, <<"pageview", 0>>, <<"error", FutureTs>>}}

\* <<metric, event_name, window_minutes>> of the alerts a user creates.
AlertConfigs ==
    {<<"error_count", "", 2>>, <<"pageview_count", "", 2>>, <<"event_count", "", 2>>,
     <<"error_count", "", 0>>}

\* Timestamps the SDK's clock may put on an event (sdk/src/index.ts stamps
\* every event with Date.now()): behind, level with or ahead of the server.
LiveStamps == {1, 2, FutureTs}

LivePayloads ==
    {[session |-> "s1", events |-> <<PayloadEvent("pageview", "https://e.com/x", "f1", t)>>] :
        t \in LiveStamps}

\* Rows of the events table a funnel is queried on: page views and clicks
\* of two sessions, stamped by the clients.
FunnelRows ==
    {[session |-> s, etype |-> t, fp |-> "f1", ts |-> ts, name |-> NULL] :
        s \in Sessions, t \in {"pageview", "click"}, ts \in 1..MaxFunnelSteps}

\* The rows of a set laid out as a table.
RECURSIVE TableOf(_)
TableOf(rows) ==
    IF rows = {} THEN << >>
    ELSE LET r == CHOOSE x \in rows : TRUE IN <<r>> \o TableOf(rows \ {r})

\* The funnel query does not depend on the order of the rows, so one table
\* per set of rows is enough.
FunnelTables ==
    {TableOf(rows) : rows \in {R \in SUBSET FunnelRows : Cardinality(R) <= MaxFunnelEvents}}


\* Steps of the funnels a user defines.
FunnelStepChoices ==
    {[etype |-> "pageview", name |-> ""], [etype |-> "click", name |-> ""]}

FunnelDefs == SeqsUpTo(FunnelStepChoices, MaxFunnelSteps)

\* <<start, end>> query parameters: absent, a time, unparsable.
FunnelParams == {<<"", "">>, <<"t2", "">>, <<"bad", "t2">>}

FunnelRequests ==
    {[NoFunnel EXCEPT !.pc = "request", !.steps = d, !.qStart = q[1], !.qEnd = q[2]] :
        d \in FunnelDefs, q \in FunnelParams}

\* The model stops ingesting once the store holds n rows.
Fits(p, n) == Len(events) + Len(p.events) <= n

\* ------------------------------------------------------------ fingerprint

\* A string is the sequence of its bytes; the strings here are ASCII.
\* unicode.IsSpace on an ASCII byte: tab, line feed, vertical tab, form
\* feed, carriage return, space.
IsSpace(b) == b \in {9, 10, 11, 12, 13, 32}

RECURSIVE TrimLeft(_)
TrimLeft(s) ==
    IF s # << >> /\ IsSpace(Head(s)) THEN TrimLeft(Tail(s)) ELSE s

RECURSIVE TrimRight(_)
TrimRight(s) ==
    IF s # << >> /\ IsSpace(s[Len(s)])
    THEN TrimRight(SubSeq(s, 1, Len(s) - 1))
    ELSE s

\* strings.TrimSpace: the string without its leading and trailing white
\* space; white space inside the string stays.
TrimSpace(s) == TrimRight(TrimLeft(s))

\* A string left as it is.
KeepCase(s) == s

\* strings.ToLower: 'A'..'Z' become 'a'..'z', every other byte stays.
ToLower(s) ==
    IF s = << >> THEN << >>
    ELSE [k \in 1..Len(s) |-> IF s[k] \in 65..90 THEN s[k] + 32 ELSE s[k]]

\* The hash state of sha256.New(), what writing one byte does to it, and
\* the 32 bytes of h.Sum(nil). SHA-256 itself is not computed: a mixing
\* function of the bytes written stands for it, so the digest depends on
\* the bytes written, on their order and on nothing else.
NewHash == 7
WriteByte(h, b) == (h * 31 + b + 1) % 65521
Sum(h) == [k \in 1..32 |-> ((h \div (2 ^ (k % 8))) * (2 * k + 1) + h + k) % 256]

RECURSIVE Write(_, _)
Write(h, bytes) ==
    IF bytes = << >> THEN h ELSE Write(WriteByte(h, Head(bytes)), Tail(bytes))

\* hex.EncodeToString: two digits of "0123456789abcdef" for each byte.
HexTable == <<"0", "1", "2", "3", "4", "5", "6", "7",
              "8", "9", "a", "b", "c", "d", "e", "f">>

RECURSIVE EncodeToString(_)
EncodeToString(bytes) ==
    IF bytes = << >> THEN << >>
    ELSE <<HexTable[(Head(bytes) \div 16) + 1], HexTable[(Head(bytes) % 16) + 1]>>
         \o EncodeToString(Tail(bytes))

\* The loop over parts: a '|' before every part but the first, then the
\* part.
RECURSIVE WriteParts(_, _, _)
WriteParts(h, parts, k) ==
    IF k > Len(parts) THEN h
    ELSE WriteParts(Write(IF k > 1 THEN WriteByte(h, 124) ELSE h, parts[k]),
                    parts, k + 1)

ComputeFingerprint(elementTag, elementID, elementClasses, parentPath, urlPath) ==
    LET parts == <<ToLower(TrimSpace(elementTag)),
                   ToLower(TrimSpace(elementID)),
                   ToLower(TrimSpace(elementClasses)),
                   TrimSpace(parentPath),
                   TrimSpace(urlPath)>>
    IN SubSeq(EncodeToString(Sum(WriteParts(NewHash, parts, 1))), 1, 16)

Fingerprint(args) == ComputeFingerprint(args[1], args[2], args[3], args[4], args[5])

\* Arguments of the first call: tag, id and classes are "", "a" or "a B",
\* the two paths "/".
LocatorTexts == {<< >>, <<97>>, <<97, 32, 66>>}
PathTexts == {<<47>>}
\* The white space a client may leave around an argument: tab or space.
Padding == {9, 32}

\* ComputeFingerprint is called on five arguments, and once more on the
\* same arguments.
FpCall(t, i, c, p, u) ==
    /\ fpr.pc = "none"
    /\ fpr' = [pc |-> "called", in |-> <<t, i, c, p, u>>, alt |-> <<t, i, c, p, u>>,
               out |-> ComputeFingerprint(t, i, c, p, u),
               outAlt |-> ComputeFingerprint(t, i, c, p, u), edits |-> 0]
    /\ UNCHANGED <<coreVars, migVars, crypt, ovrVars, flagVars, txVars>>

\* The second call is repeated with white space put before or after one of
\* its arguments.
FpPad(k, b, leading) ==
    /\ fpr.pc = "called"
    /\ fpr.edits < MaxEdits
    /\ LET arg == IF leading THEN <<b>> \o fpr.alt[k] ELSE Append(fpr.alt[k], b)
           args == [fpr.alt EXCEPT ![k] = arg]
       IN fpr' = [fpr EXCEPT !.alt = args, !.outAlt = Fingerprint(args),
                             !.edits = @ + 1]
    /\ UNCHANGED <<coreVars, migVars, crypt, ovrVars, flagVars, txVars>>

\* The second call is repeated with one letter of its tag, id or classes
\* in the other case.
FpRecase(k, pos) ==
    /\ fpr.pc = "called"
    /\ fpr.edits < MaxEdits
    /\ pos \in 1..Len(fpr.alt[k])
    /\ LET b == fpr.alt[k][pos]
           other == IF b \in 65..90 THEN b + 32
                    ELSE IF b \in 97..122 THEN b - 32 ELSE b
           args == [fpr.alt EXCEPT ![k][pos] = other]
       IN /\ other # b
          /\ fpr' = [fpr EXCEPT !.alt = args, !.outAlt = Fingerprint(args),
                                !.edits = @ + 1]
    /\ UNCHANGED <<coreVars, migVars, crypt, ovrVars, flagVars, txVars>>

\* ------------------------------------------------------------- encryption

\* "enc:v1:"
encPrefix == <<101, 110, 99, 58, 118, 49, 58>>

HasPrefix(s, prefix) ==
    Len(s) >= Len(prefix) /\ SubSeq(s, 1, Len(prefix)) = prefix
TrimPrefix(s, prefix) ==
    IF HasPrefix(s, prefix) THEN SubSeq(s, Len(prefix) + 1, Len(s)) ELSE s

\* base64.StdEncoding: the character of a 6-bit value, A-Z a-z 0-9 + /.
B64Char(v) ==
    IF v < 26 THEN 65 + v
    ELSE IF v < 52 THEN 97 + (v - 26)
    ELSE IF v < 62 THEN 48 + (v - 52)
    ELSE IF v = 62 THEN 43 ELSE 47

\* The 6-bit value of a character, or -1 if it is not in the alphabet.
B64Val(c) ==
    IF c \in 65..90 THEN c - 65
    ELSE IF c \in 97..122 THEN c - 97 + 26
    ELSE IF c \in 48..57 THEN c - 48 + 52
    ELSE IF c = 43 THEN 62
    ELSE IF c = 47 THEN 63 ELSE -1

\* EncodeToString: four characters for every three bytes, the last group
\* filled with '='.
RECURSIVE B64Encode(_)
B64Encode(bytes) ==
    IF bytes = << >> THEN << >>
    ELSE IF Len(bytes) = 1 THEN
        <<B64Char(bytes[1] \div 4), B64Char((bytes[1] % 4) * 16), 61, 61>>
    ELSE IF Len(bytes) = 2 THEN
        <<B64Char(bytes[1] \div 4),
          B64Char((bytes[1] % 4) * 16 + bytes[2] \div 16),
          B64Char((bytes[2] % 16) * 4), 61>>
    ELSE
        <<B64Char(bytes[1] \div 4),
          B64Char((bytes[1] % 4) * 16 + bytes[2] \div 16),
          B64Char((bytes[2] % 16) * 4 + bytes[3] \div 64),
          B64Char(bytes[3] % 64)>>
        \o B64Encode(SubSeq(bytes, 4, Len(bytes)))

\* DecodeString: the bytes, or an error on a character outside the
\* alphabet, on a length that is no multiple of four, or on '=' anywhere
\* but at the end of the last group.
RECURSIVE B64Decode(_)
B64Decode(chars) ==
    IF chars = << >> THEN [val |-> << >>, err |-> FALSE]
    ELSE IF Len(chars) < 4 THEN [val |-> << >>, err |-> TRUE]
    ELSE
        LET a == B64Val(chars[1])
            b == B64Val(chars[2])
            c == B64Val(chars[3])
            d == B64Val(chars[4])
            last == Len(chars) = 4
            bad == [val |-> << >>, err |-> TRUE]
        IN IF a < 0 \/ b < 0 THEN bad
           ELSE IF last /\ chars[3] = 61 /\ chars[4] = 61
                THEN [val |-> <<a * 4 + b \div 16>>, err |-> FALSE]
           ELSE IF c < 0 THEN bad
           ELSE IF last /\ chars[4] = 61
                THEN [val |-> <<a * 4 + b \div 16, (b % 16) * 16 + c \div 4>>,
                      err |-> FALSE]
           ELSE IF d < 0 THEN bad
           ELSE LET rest == B64Decode(SubSeq(chars, 5, Len(chars)))
                IN IF rest.err THEN bad
                   ELSE [val |-> <<a * 4 + b \div 16, (b % 16) * 16 + c \div 4,
                                   (c % 4) * 64 + d>> \o rest.val,
                         err |-> FALSE]

\* The AEAD of cipher.NewGCM. AES-GCM itself is not computed: a key stream
\* added to the plaintext byte by byte and a tag over key, nonce and
\* ciphertext stand for it, so that Open gives back what Seal was given
\* only for the same key and nonce and an unchanged ciphertext.
KeyStream(key, nonce, k) == (key * 7 + nonce[1] * 3 + nonce[NonceSize] + k * 13) % 256

RECURSIVE TagOf(_, _)
TagOf(t, bytes) ==
    IF bytes = << >> THEN t ELSE TagOf((t * 31 + Head(bytes) + 1) % 65521, Tail(bytes))

Tag(key, nonce, ciphertext) ==
    LET t == TagOf(TagOf(key, nonce), ciphertext)
    IN [k \in 1..TagSize |-> (t \div (2 ^ (k % 8)) + t * k) % 256]

\* The plaintext under the key stream.
Sealed(key, nonce, plaintext) ==
    IF plaintext = << >> THEN << >>
    ELSE [k \in 1..Len(plaintext) |->
             (plaintext[k] + KeyStream(key, nonce, k)) % 256]

\* Seal(nil, nonce, plaintext, nil): ciphertext and tag, without the nonce.
SealBare(key, nonce, plaintext) ==
    LET ct == Sealed(key, nonce, plaintext)
    IN ct \o Tag(key, nonce, ct)

\* Seal(dst, nonce, plaintext, nil) with dst = nonce: nonce, ciphertext, tag.
Seal(key, nonce, plaintext) ==
    LET ct == Sealed(key, nonce, plaintext)
    IN nonce \o ct \o Tag(key, nonce, ct)

\* Open(nil, nonce, ciphertext, nil): the plaintext, or an error when the
\* tag does not fit.
Open(key, nonce, sealed) ==
    IF Len(sealed) < TagSize THEN [val |-> << >>, err |-> TRUE]
    ELSE LET n == Len(sealed) - TagSize
             ct == SubSeq(sealed, 1, n)
         IN IF SubSeq(sealed, n + 1, Len(sealed)) # Tag(key, nonce, ct)
            THEN [val |-> << >>, err |-> TRUE]
            ELSE [val |-> IF n = 0 THEN << >>
                          ELSE [k \in 1..n |->
                                   (ct[k] + 256 - KeyStream(key, nonce, k)) % 256],
                  err |-> FALSE]

\* The key of an Encryptor that is not nil.
KeyOf(e) == IF e = "key1" THEN 1 ELSE 2

\* Encryptor.Encrypt; e is "nil" or names the key of the AEAD. randOk is whether
\* rand.Reader filled the nonce.
Encrypt(e, plaintext, nonce, randOk) ==
    IF e = "nil" THEN [val |-> plaintext, err |-> FALSE]
    ELSE IF ~randOk THEN [val |-> << >>, err |-> TRUE]
    ELSE [val |-> encPrefix \o B64Encode(Seal(KeyOf(e), nonce, plaintext)), err |-> FALSE]

\* Encryptor.Decrypt
Decrypt(e, value) ==
    IF e = "nil" THEN [val |-> value, err |-> FALSE]
    ELSE IF ~HasPrefix(value, encPrefix) THEN [val |-> value, err |-> FALSE]
    ELSE LET data == B64Decode(TrimPrefix(value, encPrefix))
         IN IF data.err THEN [val |-> << >>, err |-> TRUE]
            ELSE IF Len(data.val) < NonceSize THEN [val |-> << >>, err |-> TRUE]
            ELSE Open(KeyOf(e), SubSeq(data.val, 1, NonceSize),
                      SubSeq(data.val, NonceSize + 1, Len(data.val)))

\* The strings of at most n bytes over the given bytes.
Strs(bytes, n) == UNION {[1..m -> bytes] : m \in 0..n}

\* Values handed to the Encryptor: short strings over a zero byte, 'e' and
\* the byte 255, the prefix itself and a string that starts with it.
Plaintexts == Strs({0, 101, 255}, MaxPlain) \cup {encPrefix, encPrefix \o <<65, 61>>}
\* The Encryptor: nil when no key is configured, else its key.
Encryptors == {"nil", "key1", "key2"}
\* Nonces rand.Reader may give.
Nonces == {[k \in 1..NonceSize |-> 0], [k \in 1..NonceSize |-> (k * 19) % 256]}

\* A value is encrypted.
CryptEncrypt(e, x, nonce, randOk) ==
    /\ crypt.pc = "none"
    /\ crypt' = [NoCrypt EXCEPT !.pc = "encrypted", !.e = e, !.x = x,
                                !.enc = Encrypt(e, x, nonce, randOk)]
    /\ UNCHANGED <<coreVars, migVars, fpr, ovrVars, flagVars, txVars>>

\* What Encrypt returned is decrypted by the same Encryptor.
CryptDecrypt ==
    /\ crypt.pc = "encrypted"
    /\ ~crypt.enc.err
    /\ crypt' = [crypt EXCEPT !.pc = "decrypted", !.dec = Decrypt(crypt.e, crypt.enc.val)]
    /\ UNCHANGED <<coreVars, migVars, fpr, ovrVars, flagVars, txVars>>

\* A value found in the database, which Encrypt need not have produced, is
\* decrypted.
CryptDecryptStored(e, x) ==
    /\ crypt.pc = "none"
    /\ crypt' = [NoCrypt EXCEPT !.pc = "read", !.e = e, !.x = x, !.dec = Decrypt(e, x)]
    /\ UNCHANGED <<coreVars, migVars, fpr, ovrVars, flagVars, txVars>>

\* ----------------------------------------------------------- feature flags

\* The bytes of a flag id.
IdBytes(id) == IF id = "F1" THEN <<70, 49>> ELSE <<70, 50>>

\* The exclusive or of two numbers of n bits.
RECURSIVE XorBits(_, _, _)
XorBits(a, b, n) ==
    IF n = 0 THEN 0
    ELSE (((a % 2) + (b % 2)) % 2) + 2 * XorBits(a \div 2, b \div 2, n - 1)

\* fnv.New32a: the 32-bit state, kept as two halves of 16 bits, starts at
\* the offset basis 0x811C9DC5.
New32a == [hi |-> 33052, lo |-> 40389]

\* Write of one byte: the byte is xor-ed into the state, which is then
\* multiplied by the prime 0x01000193 modulo 2^32.
FnvWriteByte(h, b) ==
    LET lo == (h.lo \div 256) * 256 + XorBits(h.lo % 256, b, 8)
        prod == lo * 403
    IN [lo |-> prod % 65536,
        hi |-> (h.hi * 403 + lo * 256 + prod \div 65536) % 65536]

RECURSIVE FnvWrite(_, _)
FnvWrite(h, bytes) ==
    IF bytes = << >> THEN h ELSE FnvWrite(FnvWriteByte(h, Head(bytes)), Tail(bytes))

\* int(h.Sum32() % 100) for the bytes of distinctID + ":" + f.ID
Bucket(distinctID, id) ==
    LET h == FnvWrite(New32a, distinctID \o <<58>> \o IdBytes(id))
    IN ((h.hi % 100) * 36 + h.lo) % 100

\* evaluateFlagsHandler's value for one flag.
Evaluate(f, distinctID, id) ==
    IF ~f.enabled THEN FALSE
    ELSE IF f.rollout >= 100 THEN TRUE
    ELSE Bucket(distinctID, id) < f.rollout

\* createFlagHandler: a rollout that is not positive becomes 100, the flag
\* is stored enabled. The id is a fresh random one.
CreateFlag(id, rolloutPercentage) ==
    /\ ~flags.tab[id].present
    /\ LET rollout == IF rolloutPercentage <= 0 THEN 100 ELSE rolloutPercentage
       IN flags' = [tab |-> [flags.tab EXCEPT ![id] =
                        [present |-> TRUE, enabled |-> TRUE, rollout |-> rollout,
                         given |-> rolloutPercentage, by |-> "create"]],
                    ans |-> NoAnswer]
    /\ UNCHANGED <<coreVars, migVars, pureVars, ovrVars, txVars>>

\* updateFlagHandler: an UPDATE of enabled and rollout_percentage of the row
\* with the id, if there is one.
UpdateFlag(id, enabled, rolloutPercentage) ==
    /\ flags' = [tab |-> IF flags.tab[id].present
                         THEN [flags.tab EXCEPT ![id].enabled = enabled,
                                                ![id].rollout = rolloutPercentage,
                                                ![id].given = rolloutPercentage,
                                                ![id].by = "update"]
                         ELSE flags.tab,
                 ans |-> NoAnswer]
    /\ UNCHANGED <<coreVars, migVars, pureVars, ovrVars, txVars>>

\* deleteFlagHandler
DeleteFlag(id) ==
    /\ flags' = [tab |-> [flags.tab EXCEPT ![id] = NoFlag], ans |-> NoAnswer]
    /\ UNCHANGED <<coreVars, migVars, pureVars, ovrVars, txVars>>

\* evaluateFlagsHandler: every flag of the project is evaluated for the
\* distinct id of the request.
EvaluateFlags(distinctID) ==
    /\ flags' = [flags EXCEPT !.ans =
            [asked |-> TRUE, distinct |-> distinctID,
             result |-> [id \in {i \in FlagIds : flags.tab[i].present} |->
                            Evaluate(flags.tab[id], distinctID, id)]]]
    /\ UNCHANGED <<coreVars, migVars, pureVars, ovrVars, txVars>>

\* ----------------------------------------------------------- SDK transport

\* The delays before the retries, in milliseconds.
RETRY_DELAYS == <<1000, 5000, 15000>>

\* How an attempt may end: fetch throws (a network error; anything thrown
\* inside the try block is caught alike), or a response with a status.
Statuses == {200, 204, 304, 400, 429, 500, 503}
Thrown == [thrown |-> TRUE, status |-> 0]
Outcomes == {Thrown} \cup {[thrown |-> FALSE, status |-> st] : st \in Statuses}

\* Response.ok
Ok(status) == status \in 200..299

\* A plausible slip: every response that is not ok is retried.
RetriedNotOk(status) == ~Ok(status)

\* The statuses send retries on.
Retried(status) == status >= 500

\* send is called with retryCount 0 and starts its fetch.
TxSend ==
    /\ tx.pc = "idle"
    /\ tx' = [NoSend EXCEPT !.pc = "fetch"]
    /\ UNCHANGED <<coreVars, migVars, pureVars, ovrVars, flagVars>>

\* The fetch of an attempt ends. An ok response resolves to true; a
\* retried status or an exception goes to the delay while retryCount is
\* below MAX_RETRIES; everything else resolves to false.
TxAttempt(outcome) ==
    /\ tx.pc = "fetch"
    /\ LET again == /\ tx.retryCount < MAX_RETRIES
                    /\ outcome.thrown \/ Retried(outcome.status)
       IN tx' = [tx EXCEPT
                   !.log = Append(@, outcome),
                   !.pc = IF again THEN "delay" ELSE "done",
                   !.result = IF again THEN "none"
                              ELSE IF ~outcome.thrown /\ Ok(outcome.status) THEN "true"
                              ELSE "false"]
    /\ UNCHANGED <<coreVars, migVars, pureVars, ovrVars, flagVars>>

\* The delay of RETRY_DELAYS[retryCount] ends and send calls itself with
\* retryCount + 1.
TxRetry ==
    /\ tx.pc = "delay"
    /\ tx' = [tx EXCEPT !.waits = Append(@, RETRY_DELAYS[tx.retryCount + 1]),
                        !.retryCount = @ + 1,
                        !.pc = "fetch"]
    /\ UNCHANGED <<coreVars, migVars, pureVars, ovrVars, flagVars>>

\* -------------------------------------------------------- specifications

\* The parts of the server the specifications below do not all exercise.
InitMore ==
    /\ shut = Running
    /\ mig = NoMigrations
    /\ fpr = NoCall
    /\ crypt = NoCrypt
    /\ ovr = NoOverride
    /\ flags = NoFlags
    /\ tx = NoSend

Init ==
    /\ now = 0
    /\ events = << >>
    /\ names = [f \in Fingerprints |-> NoRow]
    /\ provider = FALSE
    /\ jobs = << >>
    /\ wk = [w \in Workers |-> IdleWorker]
    /\ req = NoReq
    /\ rpc = "idle"
    /\ pending = << >>
    /\ resp = 0
    /\ alerts = [a \in AlertIds |-> NoAlert]
    /\ sched = IdleSched
    /\ fired = << >>
    /\ live = NoLive
    /\ funnel = NoFunnel
    /\ listing = NoListing
    /\ bf = IdleBackfill
    /\ InitMore

NamerNext ==
    \/ \E w \in Workers : WorkerTake(w)
    \/ \E w \in Workers : WorkerCall(w)
    \/ \E w \in Workers : WorkerFail(w)
    \/ \E w \in Workers, n \in AINames : WorkerNamed(w, n)
    \/ \E w \in Workers : WorkerBackfill(w)

Next ==
    \/ \E p \in NamingPayloads : Fits(p, MaxEvents) /\ IngestReceive(p)
    \/ IngestHandle(NoFailure)
    \/ IngestSubmit
    \/ \E p \in BOOLEAN : SetProvider(p)
    \/ \E f \in Fingerprints, u \in UserNames : OverrideName(f, u)
    \/ NamerNext

Spec == Init /\ [][Next]_vars

IngestNext ==
    \/ \E p \in ValidationPayloads : Fits(p, MaxEvents) /\ IngestReceive(p)
    \/ \E failAt \in 0..(MaxBatch + 1) : IngestHandle(failAt)
    \/ IngestSubmit

SpecIngest == Init /\ [][IngestNext]_vars

AlertsNext ==
    \/ \E p \in AlertPayloads : Fits(p, MaxAlertEvents) /\ IngestReceive(p)
    \/ IngestHandle(NoFailure)
    \/ IngestSubmit
    \/ \E c \in AlertConfigs : CreateAlert("A1", c[1], c[2], 1, c[3])
    \/ \E en \in BOOLEAN, th \in {0, 1} : UpdateAlert("A1", en, th)
    \/ AlertTick
    \/ AlertEval
    \/ AlertRecord
    \/ ClockAdvance

SpecAlerts == Init /\ [][AlertsNext]_vars

LiveNext ==
    \/ \E p \in LivePayloads : Fits(p, MaxEvents) /\ IngestReceive(p)
    \/ IngestHandle(NoFailure)
    \/ LiveOpen
    \/ \E queryOk \in BOOLEAN : LiveQuery(queryOk)
    \/ \E writeOk \in BOOLEAN : LiveEmit(writeOk)
    \/ LiveDisconnect
    \/ ClockAdvance

SpecLive == Init /\ [][LiveNext]_vars

\* A stream whose client may go at any moment. The select takes the
\* cancellation case once it stays ready, and a write returns.
StreamNext ==
    \/ \E p \in LivePayloads : Fits(p, MaxEvents) /\ IngestReceive(p)
    \/ IngestHandle(NoFailure)
    \/ LiveOpen
    \/ \E queryOk \in BOOLEAN : LiveQuery(queryOk)
    \/ \E writeOk \in BOOLEAN : LiveEmit(writeOk)
    \/ \E writeOk \in BOOLEAN : LiveHeartbeat(writeOk)
    \/ LiveCancel
    \/ LiveDone
    \/ ClockAdvance

StreamFairness ==
    /\ WF_vars(LiveDone)
    /\ WF_vars(\E writeOk \in BOOLEAN : LiveEmit(writeOk))

SpecStream == Init /\ [][StreamNext]_vars /\ StreamFairness

\* The database is opened again and again; each opening runs the
\* migrations, and any database call of a run may fail.
MigrationsNext ==
    \/ \E ok \in BOOLEAN : MigStart(ok)
    \/ \E execOk, recordOk \in BOOLEAN : MigStep(execOk, recordOk)
    \/ MigReturn

SpecMigrations == Init /\ [][MigrationsNext]_vars

\* Calls of ComputeFingerprint on arguments that differ in white space
\* around them and in the case of tag, id and classes.
FingerprintNext ==
    \/ \E t, i, c \in LocatorTexts, p, u \in PathTexts : FpCall(t, i, c, p, u)
    \/ \E k \in 1..5, b \in Padding, leading \in BOOLEAN : FpPad(k, b, leading)
    \/ \E k \in 1..3, pos \in 1..(3 + MaxEdits) : FpRecase(k, pos)

SpecFingerprint == Init /\ [][FingerprintNext]_vars

\* One value goes through an Encryptor.
CryptNext ==
    \/ \E e \in Encryptors, x \in Plaintexts, nonce \in Nonces, randOk \in BOOLEAN :
           CryptEncrypt(e, x, nonce, randOk)
    \/ CryptDecrypt
    \/ \E e \in Encryptors, x \in Plaintexts : CryptDecryptStored(e, x)

SpecCrypt == Init /\ [][CryptNext]_vars

\* The funnel query reads the events table only: a request is answered on
\* each table of the bounded set, after the events' timestamps have passed.
InitFunnel ==
    /\ now = MaxFunnelSteps
    /\ events \in FunnelTables
    /\ names = [f \in Fingerprints |-> NoRow]
    /\ provider = FALSE
    /\ jobs = << >>
    /\ wk = [w \in Workers |-> IdleWorker]
    /\ req = NoReq
    /\ rpc = "idle"
    /\ pending = << >>
    /\ resp = 0
    /\ alerts = [a \in AlertIds |-> NoAlert]
    /\ sched = IdleSched
    /\ fired = << >>
    /\ live = NoLive
    /\ funnel \in FunnelRequests
    /\ listing = NoListing
    /\ bf = IdleBackfill
    /\ InitMore

FunnelNext == FunnelResults

SpecFunnel == InitFunnel /\ [][FunnelNext]_vars

\* Clicks are ingested and named, names are overridden, and the listing is
\* asked with and without a fingerprint filter.
ListNext ==
    \/ \E p \in ListPayloads : Fits(p, MaxListEvents) /\ IngestReceive(p)
    \/ IngestHandle(NoFailure)
    \/ IngestSubmit
    \/ SetProvider(TRUE)
    \/ \E f \in Fingerprints, u \in UserNames : OverrideName(f, u)
    \/ NamerNext
    \/ \E fp \in {"", "f1"} : EventsList(fp)

SpecList == Init /\ [][ListNext]_vars

\* Clicks are ingested while the LLM config is changed: each change to a
\* provider starts a backfill pass beside the workers and the requests.
BackfillNext ==
    \/ \E p \in RetryPayloads : Fits(p, MaxBackfillEvents) /\ IngestReceive(p)
    \/ IngestHandle(NoFailure)
    \/ IngestSubmit
    \/ \E p \in BOOLEAN : LlmConfig(p)
    \/ \E queryOk \in BOOLEAN : BackfillStart(queryOk)
    \/ BackfillStep
    \/ NamerNext

SpecBackfill == Init /\ [][BackfillNext]_vars

\* The namer is constructed with a provider, which stays set; the provider's
\* calls may fail until the clock reaches MaxTime and succeed from then on.
InitRetry ==
    /\ now = 0
    /\ events = << >>
    /\ names = [f \in Fingerprints |-> NoRow]
    /\ provider = TRUE
    /\ jobs = << >>
    /\ wk = [w \in Workers |-> IdleWorker]
    /\ req = NoReq
    /\ rpc = "idle"
    /\ pending = << >>
    /\ resp = 0
    /\ alerts = [a \in AlertIds |-> NoAlert]
    /\ sched = IdleSched
    /\ fired = << >>
    /\ live = NoLive
    /\ funnel = NoFunnel
    /\ listing = NoListing
    /\ bf = IdleBackfill
    /\ InitMore

RetryNext ==
    \/ \E p \in RetryPayloads : Fits(p, MaxEvents) /\ IngestReceive(p)
    \/ IngestHandle(NoFailure)
    \/ IngestSubmit
    \/ \E w \in Workers : WorkerTake(w)
    \/ \E w \in Workers : WorkerCall(w)
    \/ \E w \in Workers : now < MaxTime /\ WorkerFail(w)
    \/ \E w \in Workers, n \in AINames : WorkerNamed(w, n)
    \/ \E w \in Workers : WorkerBackfill(w)
    \/ ClockAdvance

\* The request goroutine and the worker goroutines are scheduled again and
\* again, and a provider call returns.
RetryFairness ==
    /\ WF_vars(IngestHandle(NoFailure) \/ IngestSubmit)
    /\ \A w \in Workers :
        WF_vars(WorkerTake(w) \/ WorkerCall(w) \/ WorkerBackfill(w)
                \/ \E n \in AINames : WorkerNamed(w, n))

SpecRetry == InitRetry /\ [][RetryNext]_vars /\ RetryFairness

\* Shutdown after the server has stopped serving: no request is in flight
\* when Close is called and none is accepted afterwards. The goroutines are
\* scheduled again and again; nothing makes a provider call return.
DrainNext ==
    \/ \E p \in RetryPayloads :
            shut.pc = "running" /\ Fits(p, MaxEvents) /\ IngestReceive(p)
    \/ IngestHandle(NoFailure)
    \/ IngestSubmit
    \/ \E w \in Workers : WorkerTake(w)
    \/ \E w \in Workers : WorkerCall(w)
    \/ \E w \in Workers : WorkerFail(w)
    \/ \E w \in Workers, n \in AINames : WorkerNamed(w, n)
    \/ \E w \in Workers : WorkerBackfill(w)
    \/ \E w \in Workers : WorkerExit(w)
    \/ rpc = "idle" /\ pending = << >> /\ Close
    \/ CloseReturn

DrainFairness ==
    /\ WF_vars(CloseReturn)
    /\ \A w \in Workers :
        WF_vars(WorkerTake(w) \/ WorkerCall(w) \/ WorkerBackfill(w) \/ WorkerExit(w))

SpecDrain == InitRetry /\ [][DrainNext]_vars /\ DrainFairness

\* Shutdown while a backfill pass may be running. Requests are no longer
\* accepted once Close is called, and Close is called when no ingest
\* request is in flight; the Backfill goroutine, started by an earlier
\* settings request with a background context, is waited for by nobody.
\* A panic ends the process.
Alive == ~shut.panicked

CloseNext ==
    \/ \E p \in RetryPayloads :
            Alive /\ shut.pc = "running" /\ Fits(p, MaxBackfillEvents) /\ IngestReceive(p)
    \/ Alive /\ IngestHandle(NoFailure)
    \/ Alive /\ IngestSubmit
    \/ \E p \in BOOLEAN : Alive /\ shut.pc = "running" /\ LlmConfig(p)
    \/ \E queryOk \in BOOLEAN : Alive /\ BackfillStart(queryOk)
    \/ Alive /\ BackfillStep
    \/ \E w \in Workers : Alive /\ WorkerTake(w)
    \/ \E w \in Workers : Alive /\ WorkerCall(w)
    \/ \E w \in Workers : Alive /\ WorkerFail(w)
    \/ \E w \in Workers, n \in AINames : Alive /\ WorkerNamed(w, n)
    \/ \E w \in Workers : Alive /\ WorkerBackfill(w)
    \/ \E w \in Workers : Alive /\ WorkerExit(w)
    \/ Alive /\ rpc = "idle" /\ pending = << >> /\ Close
    \/ Alive /\ CloseReturn

SpecClose == Init /\ [][CloseNext]_vars

\* Name overrides, answered with their status, among ingest requests and
\* the naming of their fingerprints.
OverrideNext ==
    \/ \E p \in NamingPayloads : Fits(p, MaxEvents) /\ IngestReceive(p)
    \/ IngestHandle(NoFailure)
    \/ IngestSubmit
    \/ \E p \in BOOLEAN : SetProvider(p)
    \/ \E f \in Fingerprints, u \in UserNames \cup {""}, execOk \in BOOLEAN :
           OverrideRequest(f, u, execOk)
    \/ NamerNext

SpecOverride == Init /\ [][OverrideNext]_vars

\* Flags are created, updated, deleted and evaluated.
RolloutsGiven == {-1, 0, 30, 100, 150}

FlagsNext ==
    \/ \E id \in FlagIds, r \in RolloutsGiven : CreateFlag(id, r)
    \/ \E id \in FlagIds, en \in BOOLEAN, r \in RolloutsGiven : UpdateFlag(id, en, r)
    \/ \E id \in FlagIds : DeleteFlag(id)
    \/ \E d \in DistinctIds : EvaluateFlags(d)

SpecFlags == Init /\ [][FlagsNext]_vars

\* One call of send. Every fetch settles and every timer fires.
TransportNext ==
    \/ TxSend
    \/ \E outcome \in Outcomes : TxAttempt(outcome)
    \/ TxRetry

TransportFairness ==
    /\ WF_vars(\E outcome \in Outcomes : TxAttempt(outcome))
    /\ WF_vars(TxRetry)

SpecTransport == Init /\ [][TransportNext]_vars /\ TransportFairness

\* ----------------------------------------------------------------- claims

\* The request has been answered and nothing of it is left to do.
Quiescent ==
    /\ rpc = "idle"
    /\ pending = << >>
    /\ jobs = << >>
    /\ \A w \in Workers : wk[w].pc = "idle"

\* Some event of the payload fails the validator's per-event checks.
HasInvalidEvent(p) ==
    \E i \in 1..Len(p.events) :
        \/ p.events[i].etype \notin {"click", "pageview", "input", "submit", "custom", "error"}
        \/ p.events[i].url \notin ParsableURLs

\* C1: when the handler serves a request one of whose events fails
\* validation, at any position of the batch, the step answers 400, stores no
\* event and leaves nothing to submit to the namer.
C1_InvalidBatchRejected ==
    [][(rpc = "decoded" /\ rpc' = "idle" /\ HasInvalidEvent(req))
        => (resp' = 400 /\ events' = events /\ pending' = << >> /\ jobs' = jobs)]_vars

\* A batch whose second event is the invalid one has been rejected while
\* the store already held events of an earlier batch.
C1_Witness ==
    /\ rpc = "idle"
    /\ resp = 400
    /\ Len(req.events) = 2
    /\ req.session = "s1"
    /\ req.events[1].etype = "click" /\ req.events[1].url \in ParsableURLs
    /\ req.events[2].etype = "hover"
    /\ Len(events) = 1

C5_NamesNeverRegress ==
    [][\A f \in Fingerprints :
        (/\ names[f].user # NULL
         /\ \E w \in Workers : wk[w].pc = "calling" /\ wk'[w].pc = "backfill")
        => (/\ names'[f].user = names[f].user
            /\ CacheLookup(names'[f]) = <<names[f].user, TRUE>>)]_vars

\* A user_name is set for a fingerprint while a worker that passed the
\* cache check earlier is about to write an AI name for the same fingerprint.
C5_Witness ==
    \E f \in Fingerprints, w \in Workers :
        /\ names[f].user = "u1"
        /\ wk[w].pc = "calling"
        /\ wk[w].fp = f

\* C6: once nothing is left to do, every stored event whose fingerprint
\* has a generated name carries a name in event_name.
C6_AllEventsNamed ==
    Quiescent =>
        \A i \in DOMAIN events : names[events[i].fp].present => events[i].name # NULL

\* C7: once a first result has been written for a fingerprint its ai_name
\* never changes, and an event_name once written never changes.
C7_FirstResultWins ==
    [][/\ \A f \in Fingerprints : names[f].present => names'[f].ai = names[f].ai
       /\ \A i \in DOMAIN events : events[i].name # NULL => events'[i].name = events[i].name]_vars


ClaimCount(a, t) ==
    Cardinality({i \in DOMAIN events :
        /\ \/ a.metric = "error_count" /\ events[i].etype = "error"
           \/ a.metric = "pageview_count" /\ events[i].etype = "pageview"
           \/ a.metric = "event_count" /\ events[i].name = a.evname
        /\ events[i].ts >= t - a.window
        /\ events[i].ts <= t})

SinceCount(a, t) ==
    Cardinality({i \in DOMAIN events :
        /\ \/ a.metric = "error_count" /\ events[i].etype = "error"
           \/ a.metric = "pageview_count" /\ events[i].etype = "pageview"
           \/ a.metric = "event_count" /\ a.evname # "" /\ events[i].name = a.evname
           \/ a.metric = "event_count" /\ a.evname = ""
        /\ events[i].ts >= t - a.window})

C8_EveryEventDelivered ==
    live.pc = "wait" => live.owed \subseteq live.sent

\* C8: a poll's query returns every event stored since the stream opened or
\* last queried whose timestamp is not earlier than lastCheck, provided no
\* more than the limit of stored events carry such a timestamp; and the poll
\* sends what its query returned in a data frame.
C8_DeliveredSinceLastCheck ==
    [][/\ (live.pc = "wait" /\ live'.pc = "queried")
            => \A i \in (live.seen + 1)..Len(events) :
                 (/\ events[i].ts >= live.lastCheck
                  /\ Cardinality({j \in DOMAIN events : events[j].ts >= live.lastCheck})
                        <= LiveLimit)
                 => i \in live'.batch
       /\ (live.pc = "queried" /\ live'.pc = "wait")
            => live'.sent = live.sent \cup live.batch]_vars

\* Two events stored after the stream opened have both been sent, and
\* nothing else has.
C8_Witness ==
    /\ live.pc = "wait"
    /\ live.seen = 2
    /\ live.owed = {1, 2}
    /\ live.sent = {1, 2}

\* C9: a data frame holds no event that an earlier data frame of the stream
\* held.
C9_NoReEmission ==
    [][(live.pc = "queried" /\ live'.pc = "wait") => live.batch \cap live.sent = {}]_vars

\* Row i is an event of session s that matches step j of the funnel asked.
IsStepEvent(i, s, j) ==
    /\ events[i].session = s
    /\ events[i].etype = funnel.steps[j].etype
    /\ (funnel.steps[j].name # "" => events[i].name = funnel.steps[j].name)

\* C10: in an answered funnel no step counts more sessions than the step
\* before it, each count is the number of sessions counted at that step, and
\* a session counted at step k has events matching steps 1..k whose
\* timestamps strictly increase in step order.
C10_FunnelMonotoneOrdered ==
    funnel.pc = "answered" =>
        /\ Len(funnel.results) = Len(funnel.steps)
        /\ \A k \in 2..Len(funnel.results) :
              funnel.results[k].count <= funnel.results[k - 1].count
        /\ \A k \in 1..Len(funnel.results) :
              /\ funnel.results[k].count = Cardinality(funnel.results[k].sessions)
              /\ \A s \in funnel.results[k].sessions :
                    \E c \in [1..k -> DOMAIN events] :
                        /\ \A j \in 1..k : IsStepEvent(c[j], s, j)
                        /\ \A j \in 2..k : events[c[j]].ts > events[c[j - 1]].ts

\* A two-step funnel counts two sessions at its first step and one at its
\* second, the other session having its two matching events at one instant.
C10_Witness ==
    /\ funnel.pc = "answered"
    /\ Len(funnel.steps) = 2
    /\ funnel.results[1].count = 2
    /\ funnel.results[2].count = 1
    /\ \E s \in funnel.results[1].sessions \ funnel.results[2].sessions :
          \E a, b \in DOMAIN events :
              /\ IsStepEvent(a, s, 1)
              /\ IsStepEvent(b, s, 2)
              /\ events[a].ts = events[b].ts
              /\ \A i \in DOMAIN events : events[i].session = s => events[i].ts = events[a].ts

\* C11: in an answer of the event listing, every event_name that was
\* resolved from the name cache is the user_name of the fingerprint's cache
\* row when that is set and non-empty, and its ai_name otherwise.
C11_ListingPrefersUserName ==
    [][listing' # listing =>
        \A i \in DOMAIN listing'.out :
            listing'.out[i].cached =>
                /\ names[events[i].fp].present
                /\ listing'.out[i].name =
                      IF names[events[i].fp].user \notin {NULL, ""}
                      THEN names[events[i].fp].user
                      ELSE names[events[i].fp].ai]_vars

\* One answer holds an event resolved to a user_name that differs from the
\* AI name, and an event resolved to an AI name.
C11_Witness ==
    \E i, j \in DOMAIN listing.out :
        /\ listing.out[i].cached /\ listing.out[i].name \in UserNames
        /\ listing.out[j].cached /\ listing.out[j].name \in AINames
        /\ i \in DOMAIN events /\ events[i].name = NULL
        /\ names[events[i].fp].ai \in AINames

C13_ProducersNeverBlock ==
    [][/\ Len(jobs') <= QueueCap
       /\ (pending' # pending /\ Len(jobs) = QueueCap) => jobs' = jobs
       /\ (bf.pc = "loop" /\ bf' # bf /\ Len(jobs) = QueueCap
               /\ ~CacheGet(Head(bf.todo))[2])
           => (jobs' = jobs /\ bf'.pc = "idle")
       /\ (Len(jobs') > Len(jobs) /\ pending' = pending) => bf.pc = "loop"]_vars

\* The queue is full while a request is about to Submit an uncached
\* fingerprint and a pass with two fingerprints left is about to send the
\* first of them.
C13_Witness ==
    /\ Len(jobs) = QueueCap
    /\ provider
    /\ pending # << >> /\ ~CacheGet(Head(pending))[2]
    /\ bf.pc = "loop" /\ Len(bf.todo) = 2 /\ ~CacheGet(Head(bf.todo))[2]

\* C14: while an alert is stored as disabled, no step posts its webhook and
\* no step changes its last_triggered_at.
C14_DisabledNeverFires ==
    [][\A a \in AlertIds :
        (alerts[a].exists /\ ~alerts[a].enabled) =>
            /\ alerts'[a].last = alerts[a].last
            /\ ~(sched.pc = "loop" /\ Head(sched.snap).id = a
                    /\ sched'.pc = "record" /\ sched'.post # NoTime)]_vars

C17_BatchAllOrNothing ==
    [][(rpc = "decoded" /\ rpc' = "idle" /\ ValidatePayload(req) = "ok") =>
        \/ /\ resp' = 202
           /\ Len(events') = Len(events) + Len(req.events)
           /\ \A i \in 1..Len(req.events) :
                 /\ events'[Len(events) + i].fp = req.events[i].fp
                 /\ events'[Len(events) + i].etype = req.events[i].etype
           /\ SubSeq(events', 1, Len(events)) = events
        \/ /\ resp' = 500
           /\ events' = events]_vars

\* A batch of two valid events was answered 500 and none of its events is
\* in the store, which holds an earlier batch.
C17_Witness ==
    /\ rpc = "idle"
    /\ resp = 500
    /\ Len(req.events) = 2
    /\ ValidatePayload(req) = "ok"
    /\ req.events[1].fp = "f2"
    /\ Len(events) = 1
    /\ events[1].fp = "f1"

\* The fingerprints of the non-pageview events of a batch, in batch order.
NonPageviewFps(evs) ==
    LET kept == SelectSeq(evs, LAMBDA e : e.etype # "pageview")
    IN [i \in 1..Len(kept) |-> kept[i].fp]

\* C18: the step that stores a validated batch leaves exactly its
\* non-pageview events to submit, in batch order, and a failed insert
\* leaves none; Submit is called only for what is left of a stored batch,
\* one event at a time.
C18_SubmitAfterStore ==
    [][/\ (rpc = "decoded" /\ rpc' = "idle" /\ ValidatePayload(req) = "ok") =>
            /\ resp' = 202 => pending' = NonPageviewFps(req.events)
            /\ resp' = 500 => pending' = << >>
            /\ jobs' = jobs
       /\ (rpc = "idle" /\ pending # << >>) =>
            /\ resp = 202
            /\ Len(events) >= Len(req.events)
            /\ \A i \in 1..Len(req.events) :
                  events[Len(events) - Len(req.events) + i].fp = req.events[i].fp
            /\ \E k \in 1..Len(NonPageviewFps(req.events)) :
                  pending = SubSeq(NonPageviewFps(req.events), k,
                                   Len(NonPageviewFps(req.events)))
            /\ pending' # pending => pending' = Tail(pending)]_vars

\* A stored batch of a pageview followed by a click has one event left to
\* submit, the click.
C18_Witness ==
    /\ rpc = "idle"
    /\ resp = 202
    /\ Len(req.events) = 2
    /\ req.events[1].etype = "pageview" /\ req.events[1].fp = "f1"
    /\ req.events[2].etype = "click" /\ req.events[2].fp = "f2"
    /\ pending = <<"f2">>

\* C19: while the provider is nil no worker starts a provider call, a Submit
\* leaves the queue as it was, and a worker that receives a job drops it.
C19_NilProviderDisablesNaming ==
    [][~provider =>
        /\ \A w \in Workers : wk'[w].pc = "calling" => wk[w].pc = "calling"
        /\ pending' # pending => jobs' = jobs
        /\ Len(jobs') < Len(jobs) => wk' = wk]_vars

\* C20: the step in which a worker's provider call fails changes neither the
\* name cache nor the event store nor the queue nor anything of the ingest
\* request, and leaves the worker ready for the next job.
C20_FailedCallLeavesNoTrace ==
    [][\A w \in Workers :
        (wk[w].pc = "calling" /\ wk'[w].pc = "idle") =>
            /\ names' = names
            /\ events' = events
            /\ jobs' = jobs
            /\ <<req, rpc, pending, resp>>' = <<req, rpc, pending, resp>>
            /\ wk'[w] = IdleWorker]_vars

\* The only job of f1 is gone without a name, so its call failed, and the
\* job of f2, submitted after it, was processed.
C20_Witness ==
    /\ Len(events) = 2
    /\ events[1].fp = "f1" /\ events[2].fp = "f2"
    /\ ~names["f1"].present
    /\ names["f2"].present
    /\ events[2].name \in AINames
    /\ resp = 202
    /\ Quiescent

\* C21: once Close has closed the job channel, the queue is emptied, every
\* worker returns and Close returns.
C21_CloseDrains ==
    shut.closed ~> (jobs = << >> /\ (\A w \in Workers : wk[w].pc = "done")
                        /\ shut.pc = "returned")

\* C22: a stream whose request context is cancelled ends; a failed write of
\* a data frame ends it at once; after the cancellation no query of the
\* handler succeeds and nothing is sent any more except a result obtained
\* before; and outside a tick the handler holds no events to deliver.
C22_StreamTerminates ==
    /\ live.cancelled ~> live.pc = "closed"
    /\ [](live.pc \in {"wait", "closed"} => live.batch = {})
    /\ [][/\ (live.cancelled /\ live.pc = "wait") => live'.pc \in {"wait", "closed"}
          /\ (live.pc = "queried" /\ live'.pc = "wait" /\ live.batch # {})
                => live'.sent = live.sent \cup live.batch
          /\ live.pc = "closed" => live' = live]_vars

\* The client went while a query result was waiting to be written; the
\* handler has ended and the result was written before it did.
C22_Witness ==
    /\ live.pc = "closed"
    /\ live.cancelled
    /\ live.sent # {}
    /\ live.owed \ live.sent # {}

\* C23: when the first run of the migrations succeeded, every migration
\* file has been executed exactly once however many runs followed; and a
\* file recorded in schema_migrations is never executed again.
C23_MigrationsRunOnce ==
    /\ [](mig.first = "ok" => \A f \in SqlFiles : mig.count[f] = 1 /\ f \in mig.applied)
    /\ [][\A f \in SqlFiles : f \in mig.applied => mig'.count[f] = mig.count[f]]_vars

\* The first run succeeded and every further run of the model has ended.
C23_Witness ==
    /\ mig.first = "ok"
    /\ mig.runs = MaxRuns
    /\ mig.pc = "idle"
    /\ \A f \in SqlFiles : mig.count[f] = 1

\* C24: the fingerprint is a function of its five arguments that returns 16
\* characters, each a digit or a letter a..f; two calls whose arguments
\* differ only in white space before or after tag, id, classes, parent path
\* or URL path, or only in the case of letters of tag, id or classes,
\* return equal fingerprints.
C24_FingerprintNormalises ==
    fpr.pc = "called" =>
        /\ fpr.out = Fingerprint(fpr.in)
        /\ Len(fpr.out) = 16
        /\ \A k \in 1..16 : fpr.out[k] \in {"0", "1", "2", "3", "4", "5", "6", "7",
                                            "8", "9", "a", "b", "c", "d", "e", "f"}
        /\ fpr.outAlt = fpr.out

\* Two changes were made, one of them to the case of a letter, and the
\* arguments of the two calls differ.
C24_Witness ==
    /\ fpr.pc = "called"
    /\ fpr.edits = 2
    /\ fpr.alt # fpr.in
    /\ \E k \in 1..3 : Len(fpr.alt[k]) = Len(fpr.in[k]) /\ fpr.alt[k] # fpr.in[k]
    /\ \E k \in 4..5 : Len(fpr.alt[k]) > Len(fpr.in[k])
    /\ fpr.outAlt = fpr.out

\* C25: decrypting what Encrypt returned for a string gives the string back,
\* and decrypting a string that does not start with "enc:v1:" gives the
\* string itself.
C25_DecryptInvertsEncrypt ==
    /\ crypt.pc = "decrypted" => crypt.dec = [val |-> crypt.x, err |-> FALSE]
    /\ (crypt.pc = "read" /\ ~HasPrefix(crypt.x, encPrefix))
           => crypt.dec = [val |-> crypt.x, err |-> FALSE]

\* A string of two bytes was encrypted under a key and decrypted again; what
\* was stored is not the string.
C25_Witness ==
    /\ crypt.pc = "decrypted"
    /\ crypt.e # "nil"
    /\ Len(crypt.x) = 2
    /\ HasPrefix(crypt.enc.val, encPrefix)
    /\ crypt.enc.val # crypt.x
    /\ crypt.dec.val = crypt.x

\* C26: no job is sent on the job channel once Close has closed it, however
\* Close interleaves with Submit calls of ingest requests and with a
\* running backfill pass; no goroutine panics.
C26_NoSendAfterClose == ~shut.panicked

\* C27: once a name-override request for a fingerprint has been answered
\* with success, the fingerprint's user_name is the name of the request,
\* also when the fingerprint had no name row at the request, and the name
\* shown for the fingerprint is that name, whatever AI naming follows.
C27_OverrideStored ==
    ovr.status = 200 =>
        /\ names[ovr.fp].present
        /\ names[ovr.fp].user = ovr.name
        /\ CacheGet(ovr.fp) = <<ovr.name, TRUE>>

\* C28: in an answer of the event listing, every event of a fingerprint
\* whose user_name is set shows the user_name as its event_name, also an
\* event whose stored event_name a backfill had filled with the AI name.
C28_ListingShowsUserName ==
    [][listing' # listing =>
        \A i \in DOMAIN listing'.out :
            names[events[i].fp].user \notin {NULL, ""} =>
                listing'.out[i].name = names[events[i].fp].user]_vars

\* C29: in an answer of the flag evaluation, a flag that is enabled and whose
\* rollout percentage was given as 0, at its creation or by its latest
\* update, is false, for every distinct id.
C29_ZeroRolloutIsOff ==
    flags.ans.asked =>
        \A id \in DOMAIN flags.ans.result :
            (flags.tab[id].enabled /\ flags.tab[id].given = 0) => ~flags.ans.result[id]

\* C30: send makes at most 4 attempts, after waits of 1 s, 5 s and 15 s;
\* every attempt but the last ended in an exception or a status of 500 or
\* above, so the first ok response and the first other response below 500
\* end the call; the call ends, and its result is true exactly when an
\* attempt got an ok response.
C30_TransportRetries ==
    /\ [](/\ Len(tx.log) <= 4
          /\ tx.waits = SubSeq(<<1000, 5000, 15000>>, 1, Len(tx.waits))
          /\ tx.pc = "fetch" => Len(tx.waits) = Len(tx.log)
          /\ tx.pc \in {"delay", "done"} => Len(tx.waits) = Len(tx.log) - 1
          /\ \A k \in 1..Len(tx.log) :
                (k < Len(tx.log) \/ tx.pc = "delay") =>
                    (tx.log[k].thrown \/ tx.log[k].status >= 500)
          /\ tx.pc = "done" =>
                /\ tx.result \in {"true", "false"}
                /\ tx.result = "true" <=>
                      \E k \in 1..Len(tx.log) :
                          ~tx.log[k].thrown /\ tx.log[k].status \in 200..299)
    /\ (tx.pc = "fetch" ~> tx.pc = "done")

\* A call that ended with true at its fourth attempt, after three waits.
C30_Witness ==
    /\ tx.pc = "done"
    /\ tx.result = "true"
    /\ Len(tx.log) = 4
    /\ tx.waits = <<1000, 5000, 15000>>

====
